---- MODULE Spec2Model ----
(***************************************************************************)
(* ConnectionPool (CommonConnectionPool.cpp): a mutex-guarded queue of     *)
(* idle Connection pointers, a producer thread, a scanner thread and the   *)
(* callers of getConnection().                                             *)
(*                                                                         *)
(* Time is discrete.  One Tick is one unit of both the caller's wait       *)
(* (_connectionTimeout) and the idle clock (_maxIdleTime); idle durations  *)
(* and waits are kept as saturating relative counters so that time can     *)
(* advance for ever in a finite state space.                               *)
(*                                                                         *)
(* Every action below is one critical section of _queueMutex.  The scanner *)
(* keeps the mutex over several steps (one per iteration of its while      *)
(* loop); while scanPc = "scan" nobody else enters a critical section.     *)
(*                                                                         *)
(* The scanner calls front() and pop() without testing empty().  On a      *)
(* queue without elements front() yields the pointer left in an unused     *)
(* slot (any Connection created so far) and pop() moves the head past the  *)
(* tail; underflow counts how far.  While underflow > 0, empty() is false, *)
(* front() reads unused slots and push() stores before the head.           *)
(***************************************************************************)
EXTENDS Integers, Sequences, FiniteSets, TLC

\* ---- bounds of the model ----
NumCallers == 2
MaxPool == 2
MinInitSize == 0
MaxConns == 3
MaxUnderflow == 2
ConnectionTimeout == 2
MaxIdleTime == 2

ConnIds == 1..MaxConns
NullPtr == 0

VARIABLES
    initSize,       \* _initSize
    maxSize,        \* _maxSize
    connectionTimeout, \* _connectionTimeout, in ticks
    dbUp,           \* the database server accepts connections
    connectionQue,  \* _connectionQue: the elements between head and tail
    underflow,      \* how far the head of _connectionQue is past its tail
    connectionCnt,  \* _connectionCnt
    connState,      \* per Connection object: "free", "live", "broken" (exists,
                    \* connect() failed) or "dead" (deleted)
    alive,          \* per Connection: ticks since refreshAliveTime(), saturating
    pc,             \* per caller: position in getConnection() / handle state
    sp,             \* per caller: the pointer in the shared_ptr it was given
    timer,          \* per caller: ticks left of the current cv.wait_for
    prodPc,         \* producer: "run" (about to lock), "wait" (in cv.wait) or
                    \* "off" (thread never started)
    scanPc,         \* scanner: "sleep", "scan" (inside its while loop) or "off"
    scanTimer       \* scanner: ticks left of sleep_for(_maxIdleTime)

vars == <<initSize, maxSize, connectionTimeout, dbUp, connectionQue, underflow, connectionCnt, connState,
          alive, pc, sp, timer, prodPc, scanPc, scanTimer>>

\* the threads that call getConnection()
Callers == DOMAIN pc

cfgVars == <<initSize, maxSize, connectionTimeout, dbUp>>
queVars == <<connectionQue, underflow>>
callerVars == <<pc, sp, timer>>
scanVars == <<scanPc, scanTimer>>

Min(a, b) == IF a < b THEN a ELSE b
Max(a, b) == IF a > b THEN a ELSE b

\* ---- std::queue<Connection*> ----

\* _connectionQue.empty(): head and tail coincide
QueEmpty == connectionQue = <<>> /\ underflow = 0

\* _connectionQue.front() is defined only on a non-empty queue whose head is
\* not past its tail; otherwise it reads a slot that holds no element, and the
\* value read is whatever pointer was left there: any Connection ever created.
FrontDefined == connectionQue # <<>> /\ underflow = 0

FrontValues ==
    IF FrontDefined THEN {Head(connectionQue)}
    ELSE {p \in ConnIds : connState[p] # "free"}

\* _connectionQue.pop(): advances the head, also when there is no element
PopQue == Tail(connectionQue)

PopUnderflow == underflow + 1

\* _connectionQue.push(p): stores p at the tail and advances the tail; when the
\* head is past the tail the stored element lies before the head
PushQue(p) == IF underflow > 0 THEN connectionQue ELSE Append(connectionQue, p)

PushUnderflow == IF underflow > 0 THEN underflow - 1 ELSE 0

\* ---- new Connection() ----
Referenced(p) ==
    \/ \E i \in 1..Len(connectionQue) : connectionQue[i] = p
    \/ \E c \in Callers : sp[c] = p

Allocatable == {p \in ConnIds : connState[p] = "free"
                                \/ (connState[p] = "dead" /\ ~Referenced(p))}

NewConnection == CHOOSE p \in Allocatable : \A q \in Allocatable : p <= q

\* ---- cv.notify_all() ----
NotifiedPc == [c \in Callers |-> IF pc[c] = "wait" THEN "notified" ELSE pc[c]]

\* ---- constructor ----
\* lines 58-65: _initSize and _maxSize as read from mysql.ini
Configs == {cfg \in (MinInitSize..MaxPool) \X (1..MaxPool) : cfg[1] <= cfg[2]}

\* lines 91 and 121: p->connect(...); the Connection object exists whether or
\* not the server answered
Connect(up) == IF up THEN "live" ELSE "broken"

\* lines 82-103 with mysql.ini present: the warm-up loop, then the two threads
Construct(cfg, n, up) ==
    /\ initSize = cfg[1]
    /\ maxSize = cfg[2]
    /\ connectionTimeout = ConnectionTimeout
    /\ dbUp = up
    /\ connectionQue = [i \in 1..cfg[1] |-> i]
    /\ underflow = 0
    /\ connectionCnt = cfg[1]
    /\ connState = [p \in ConnIds |-> IF p <= cfg[1] THEN Connect(up) ELSE "free"]
    /\ alive = [p \in ConnIds |-> 0]
    /\ pc = [c \in 1..n |-> "idle"]
    /\ sp = [c \in 1..n |-> NullPtr]
    /\ timer = [c \in 1..n |-> 0]
    /\ prodPc = "run"
    /\ scanPc = "sleep"
    /\ scanTimer = MaxIdleTime

\* the pool of a reachable server
InitWith(cfg, n) == Construct(cfg, n, TRUE)

Init == \E cfg \in Configs : InitWith(cfg, NumCallers)

MutexFree == scanPc # "scan"

\* ---- getConnection() ----

\* lines 155-166: wrap the front pointer in a shared_ptr, pop, notify_all
TakeConnection(c) ==
    /\ underflow < MaxUnderflow \/ FrontDefined
    /\ \E p \in FrontValues :
        /\ sp' = [sp EXCEPT ![c] = p]
        /\ IF FrontDefined
              THEN connectionQue' = PopQue /\ UNCHANGED underflow
              ELSE underflow' = PopUnderflow /\ UNCHANGED connectionQue
    /\ pc' = [NotifiedPc EXCEPT ![c] = "holding"]
    /\ timer' = [timer EXCEPT ![c] = 0]
    /\ prodPc' = "run"
    /\ UNCHANGED <<connectionCnt, connState, alive>>

\* line 140: cv.wait_for(lock, _connectionTimeout) with a fresh full timeout
WaitFor(c) ==
    /\ pc' = [pc EXCEPT ![c] = "wait"]
    /\ timer' = [timer EXCEPT ![c] = connectionTimeout]
    /\ UNCHANGED <<queVars, connectionCnt, connState, alive, sp, prodPc>>

\* lines 136-140 and 155-166: the call, up to its first wait or its return
GetConnection(c) ==
    /\ MutexFree
    /\ pc[c] \in {"idle", "failed"}
    /\ IF QueEmpty
          THEN WaitFor(c)
          ELSE TakeConnection(c)
    /\ UNCHANGED <<cfgVars, scanVars>>

\* the deadline of wait_for passes while the caller is still blocked
TimeoutFire(c) ==
    /\ pc[c] = "wait"
    /\ timer[c] = 0
    /\ pc' = [pc EXCEPT ![c] = "timedout"]
    /\ UNCHANGED <<cfgVars, queVars, connectionCnt, connState, alive, sp, timer,
                   prodPc, scanVars>>

\* wait_for returns no_timeout: back to the loop test of line 137
WakeNoTimeout(c) ==
    /\ MutexFree
    /\ pc[c] = "notified"
    /\ IF QueEmpty
          THEN WaitFor(c)
          ELSE TakeConnection(c)
    /\ UNCHANGED <<cfgVars, scanVars>>

\* variant: the timeout is taken as the failure without looking at the queue
NoRecheck == TRUE

\* line 142: after a timeout the queue is looked at again, under the mutex
RecheckEmpty == QueEmpty

\* variant: the failing call also gives up a slot of the connection count
TimeoutFailureGivingUpSlot(c) ==
    /\ pc' = [pc EXCEPT ![c] = "failed"]
    /\ sp' = [sp EXCEPT ![c] = NullPtr]
    /\ timer' = [timer EXCEPT ![c] = 0]
    /\ connectionCnt' = connectionCnt - 1
    /\ UNCHANGED <<queVars, connState, alive, prodPc>>

\* lines 144-145: log and return nullptr
TimeoutFailure(c) ==
    /\ pc' = [pc EXCEPT ![c] = "failed"]
    /\ sp' = [sp EXCEPT ![c] = NullPtr]
    /\ timer' = [timer EXCEPT ![c] = 0]
    /\ UNCHANGED <<queVars, connectionCnt, connState, alive, prodPc>>

\* wait_for returns timeout (lines 140-147); a notified waiter whose deadline
\* has passed when it gets the mutex back may be told timeout as well.  With
\* the queue non-empty the if of line 142 is skipped and the loop test of line
\* 137 ends the loop.
WakeTimeout(c) ==
    /\ MutexFree
    /\ pc[c] = "timedout" \/ (pc[c] = "notified" /\ timer[c] = 0)
    /\ IF RecheckEmpty
          THEN TimeoutFailure(c)
          ELSE TakeConnection(c)
    /\ UNCHANGED <<cfgVars, scanVars>>

\* lines 156-161: the deleter of the shared_ptr, run when the handle is dropped
ReleaseConnection(c) ==
    /\ MutexFree
    /\ pc[c] = "holding"
    /\ alive' = [alive EXCEPT ![sp[c]] = 0]
    /\ connectionQue' = PushQue(sp[c])
    /\ underflow' = PushUnderflow
    /\ sp' = [sp EXCEPT ![c] = NullPtr]
    /\ pc' = [pc EXCEPT ![c] = "idle"]
    /\ UNCHANGED <<cfgVars, connectionCnt, connState, timer, prodPc, scanVars>>

\* ---- produceConnectionTask() ----

\* variant: the ceiling itself still counts as below it
BelowMaxOrAt == connectionCnt <= maxSize

\* line 118: the connection count has not reached the ceiling
BelowMax == connectionCnt < maxSize

\* variant: the producer does not wait for the queue to be empty
ProduceWithoutWaiting ==
    /\ MutexFree
    /\ prodPc = "run"
    /\ IF BelowMax
          THEN /\ Allocatable # {}
               /\ connState' = [connState EXCEPT ![NewConnection] = Connect(dbUp)]
               /\ alive' = [alive EXCEPT ![NewConnection] = 0]
               /\ connectionQue' = PushQue(NewConnection)
               /\ underflow' = PushUnderflow
               /\ connectionCnt' = connectionCnt + 1
               /\ UNCHANGED prodPc
          ELSE /\ prodPc' = "wait"
               /\ UNCHANGED <<queVars, connectionCnt, connState, alive>>
    /\ pc' = NotifiedPc
    /\ UNCHANGED <<cfgVars, sp, timer, scanVars>>

\* lines 109-129: one pass of the for(;;) loop, up to cv.wait or the loop end
ProduceConnectionTask ==
    /\ MutexFree
    /\ prodPc = "run"
    /\ IF ~QueEmpty
          THEN /\ prodPc' = "wait"
               /\ UNCHANGED <<queVars, connectionCnt, connState, alive, pc>>
          ELSE /\ IF BelowMax
                     THEN /\ Allocatable # {}
                          /\ connState' = [connState EXCEPT ![NewConnection] = Connect(dbUp)]
                          /\ alive' = [alive EXCEPT ![NewConnection] = 0]
                          /\ connectionQue' = PushQue(NewConnection)
                          /\ underflow' = PushUnderflow
                          /\ connectionCnt' = connectionCnt + 1
                     ELSE UNCHANGED <<queVars, connectionCnt, connState, alive>>
               /\ pc' = NotifiedPc
               /\ UNCHANGED prodPc
    /\ UNCHANGED <<cfgVars, sp, timer, scanVars>>

\* ---- scannerConnectionTask() ----

\* line 175-178: the sleep is over, the scanner takes the mutex
ScannerWake ==
    /\ scanPc = "sleep"
    /\ scanTimer = 0
    /\ scanPc' = "scan"
    /\ UNCHANGED <<cfgVars, queVars, connectionCnt, connState, alive, callerVars,
                   prodPc, scanTimer>>

\* the Connection object has been created and not deleted
Exists(p) == connState[p] \in {"live", "broken"}

\* p->getAliveeTime() >= _maxIdleTime * 1000; of a deleted object it reads
\* freed memory
IdleTooLong(p) ==
    IF Exists(p) THEN {alive[p] >= MaxIdleTime} ELSE BOOLEAN

ScannerSleep ==
    /\ scanPc' = "sleep"
    /\ scanTimer' = MaxIdleTime
    /\ UNCHANGED <<queVars, connectionCnt, connState, alive>>

\* line 179: more connections than the initial count
AboveInit == connectionCnt > initSize

\* lines 179-192: one iteration of the while loop
ScannerStep ==
    /\ scanPc = "scan"
    /\ IF AboveInit
          THEN \E p \in FrontValues : \E old \in IdleTooLong(p) :
                  IF old
                     THEN /\ underflow < MaxUnderflow \/ FrontDefined
                          /\ IF FrontDefined
                                THEN connectionQue' = PopQue /\ UNCHANGED underflow
                                ELSE underflow' = PopUnderflow /\ UNCHANGED connectionQue
                          /\ connectionCnt' = connectionCnt - 1
                          /\ connState' = [connState EXCEPT ![p] = "dead"]
                          /\ alive' = [alive EXCEPT ![p] = 0]
                          /\ UNCHANGED scanVars
                     ELSE ScannerSleep
          ELSE ScannerSleep
    /\ UNCHANGED <<cfgVars, callerVars, prodPc>>

\* ---- time ----

\* One unit of time passes.  A critical section takes no time, so no Tick
\* happens while the scanner is inside its loop.
Tick ==
    /\ MutexFree
    /\ alive' = [p \in ConnIds |->
                   IF Exists(p) THEN Min(alive[p] + 1, MaxIdleTime)
                   ELSE alive[p]]
    /\ timer' = [c \in Callers |->
                   IF pc[c] \in {"wait", "notified"} THEN Max(timer[c] - 1, 0)
                   ELSE timer[c]]
    /\ scanTimer' = Max(scanTimer - 1, 0)
    /\ UNCHANGED <<cfgVars, queVars, connectionCnt, connState, pc, sp, prodPc,
                   scanPc>>

Next ==
    \/ \E c \in Callers : GetConnection(c)
    \/ \E c \in Callers : TimeoutFire(c)
    \/ \E c \in Callers : WakeNoTimeout(c)
    \/ \E c \in Callers : WakeTimeout(c)
    \/ \E c \in Callers : ReleaseConnection(c)
    \/ ProduceConnectionTask
    \/ ScannerWake
    \/ ScannerStep
    \/ Tick

Spec == Init /\ [][Next]_vars

\* ---- scheduling ----

\* A pass of the producer that opens a connection or ends in cv.wait, and
\* getting the mutex back after a wait has ended, take less than one unit of
\* time.
ProducerBusy == prodPc = "run" /\ (~QueEmpty \/ BelowMax)

WakePending == \E c \in Callers : pc[c] \in {"notified", "timedout"}

TickPrompt == ~ProducerBusy /\ ~WakePending /\ Tick

NextPrompt ==
    \/ \E c \in Callers : GetConnection(c)
    \/ \E c \in Callers : TimeoutFire(c)
    \/ \E c \in Callers : WakeNoTimeout(c)
    \/ \E c \in Callers : WakeTimeout(c)
    \/ \E c \in Callers : ReleaseConnection(c)
    \/ ProduceConnectionTask
    \/ ScannerWake
    \/ ScannerStep
    \/ TickPrompt

\* Time passes and the producer and the scanner threads keep running.  A
\* thread that needs the mutex gets it in the end, although the scanner takes
\* it again and again (strong fairness of the steps that lock).  When callers
\* call and when they drop their handles is up to them.
LiveSpec ==
    /\ Init
    /\ [][NextPrompt]_vars
    /\ SF_vars(TickPrompt)
    /\ SF_vars(ProduceConnectionTask)
    /\ WF_vars(ScannerWake)
    /\ WF_vars(ScannerStep)
    /\ \A c \in 1..NumCallers : WF_vars(TimeoutFire(c))
    /\ \A c \in 1..NumCallers : SF_vars(WakeNoTimeout(c) \/ WakeTimeout(c))

\* ---- callers that never drop their handles ----

\* initSize = maxSize = 1, three callers
StarvedConfig == <<1, 1>>

StarvedInit == InitWith(StarvedConfig, StarvedConfig[2] + 2)

NextNoRelease ==
    \/ \E c \in Callers : GetConnection(c)
    \/ \E c \in Callers : TimeoutFire(c)
    \/ \E c \in Callers : WakeNoTimeout(c)
    \/ \E c \in Callers : WakeTimeout(c)
    \/ ProduceConnectionTask
    \/ ScannerWake
    \/ ScannerStep
    \/ Tick

StarvedSpec == StarvedInit /\ [][NextNoRelease]_vars

\* ---- load: maxSize + 1 callers call at once and keep their handles ----
LoadConfig == <<1, 2>>

LoadCallers == LoadConfig[2] + 1

LoadInit == InitWith(LoadConfig, LoadCallers)

\* the calls are concurrent: all are made before any time has passed
CallPending == \E c \in Callers : pc[c] = "idle"

TickLoad == ~ProducerBusy /\ ~WakePending /\ ~CallPending /\ Tick

NextLoad ==
    \/ \E c \in Callers : pc[c] = "idle" /\ GetConnection(c)
    \/ \E c \in Callers : TimeoutFire(c)
    \/ \E c \in Callers : WakeNoTimeout(c)
    \/ \E c \in Callers : WakeTimeout(c)
    \/ ProduceConnectionTask
    \/ ScannerWake
    \/ ScannerStep
    \/ TickLoad

LoadSpec ==
    /\ LoadInit
    /\ [][NextLoad]_vars
    /\ SF_vars(TickLoad)
    /\ SF_vars(ProduceConnectionTask)
    /\ WF_vars(ScannerWake)
    /\ WF_vars(ScannerStep)
    /\ \A c \in 1..LoadCallers : SF_vars(pc[c] = "idle" /\ GetConnection(c))
    /\ \A c \in 1..LoadCallers : WF_vars(TimeoutFire(c))
    /\ \A c \in 1..LoadCallers : SF_vars(WakeNoTimeout(c) \/ WakeTimeout(c))

\* ---- construction and connections that fail ----

\* lines 8 and 82-85 without mysql.ini: the constructor returns before the
\* warm-up loop and before the threads are started; no member was assigned, and
\* the members of the static pool object start as zero
ConstructNoConfig(n) ==
    /\ initSize = 0
    /\ maxSize = 0
    /\ connectionTimeout = 0
    /\ dbUp \in BOOLEAN
    /\ connectionQue = <<>>
    /\ underflow = 0
    /\ connectionCnt = 0
    /\ connState = [p \in ConnIds |-> "free"]
    /\ alive = [p \in ConnIds |-> 0]
    /\ pc = [c \in 1..n |-> "idle"]
    /\ sp = [c \in 1..n |-> NullPtr]
    /\ timer = [c \in 1..n |-> 0]
    /\ prodPc = "off"
    /\ scanPc = "off"
    /\ scanTimer = 0

\* the server is reachable or it is not, mysql.ini is there or it is not
FailInit ==
    \/ \E cfg \in Configs : \E up \in BOOLEAN : Construct(cfg, NumCallers, up)
    \/ ConstructNoConfig(NumCallers)

FailSpec == FailInit /\ [][Next]_vars

\* ---- helpers of the properties ----
Range(q) == {q[i] : i \in 1..Len(q)}

Held == {sp[c] : c \in Callers} \ {NullPtr}

NoDuplicates(q) == \A i, j \in 1..Len(q) : i # j => q[i] # q[j]

\* C1: the connection count stays between the initial size and the maximum
\* size in every state of the running pool.
C1_BoundedSize == initSize <= connectionCnt /\ connectionCnt <= maxSize

\* the pool has grown to its maximum after the scanner deleted a connection
C1_Witness ==
    /\ initSize < maxSize
    /\ connectionCnt = maxSize
    /\ \E p \in ConnIds : connState[p] = "dead"

\* C2: no connection is held by two callers, none is both held and in the idle
\* queue, and none occurs twice in the idle queue.
C2_NoDoubleCheckout ==
    /\ \A c, d \in Callers : c # d /\ sp[c] # NullPtr => sp[c] # sp[d]
    /\ \A c \in Callers : sp[c] # NullPtr => sp[c] \notin Range(connectionQue)
    /\ NoDuplicates(connectionQue)

\* C3: dropping a handle puts its connection into the idle queue exactly once:
\* the queue after the release is the queue before it with that connection
\* appended, and the connection was not in the queue before.
C3_ExactlyOnceRelease ==
    [][\A c \in Callers :
          pc[c] = "holding" /\ pc'[c] # "holding" =>
             /\ sp[c] \notin Range(connectionQue)
             /\ connectionQue' = Append(connectionQue, sp[c])]_vars

\* C4: the wait of one getConnection() call is bounded by the timeout: a wait
\* that is resumed after a wakeup with the queue still empty has no more time
\* left than it had when the wakeup came.
C4_BoundedWait ==
    [][\A c \in Callers :
          pc[c] = "notified" /\ pc'[c] = "wait" => timer'[c] <= timer[c]]_vars

\* C5: whenever getConnection() has returned, what it returned is a valid
\* handle, never a null pointer.
C5_NeverNullHandle ==
    \A c \in Callers : pc[c] \in {"holding", "failed"} => sp[c] # NullPtr

\* C6: getConnection() fails only when the idle queue is empty at the moment
\* it decides under the mutex; a waiter whose wait timed out and who finds the
\* queue non-empty returns the connection at the head instead.
C6_NoLossAtTimeout ==
    [][\A c \in Callers :
          /\ pc[c] # "failed" /\ pc'[c] = "failed" => QueEmpty
          /\ pc[c] = "timedout" /\ pc'[c] # "timedout" /\ ~QueEmpty =>
                pc'[c] = "holding" /\ sp'[c] \in FrontValues]_vars

\* a waiter's wait has timed out and, before it got the mutex back, a
\* connection was put into the queue
C6_Witness ==
    \E c \in Callers : pc[c] = "timedout" /\ connectionQue # <<>>

\* C7: the step in which getConnection() fails, and the steps in which it
\* starts or resumes waiting, leave the idle queue, the connection count, the
\* connections and the set of checked-out connections as they were.
C7_TimeoutChangesNothing ==
    [][\A c \in Callers :
          \/ pc[c] # "failed" /\ pc'[c] = "failed"
          \/ pc[c] \in {"idle", "failed", "notified"} /\ pc'[c] = "wait"
          => /\ UNCHANGED <<connectionQue, underflow, connectionCnt, connState, alive>>
             /\ Held' = Held]_vars

\* a call has failed while the only connection of the pool is checked out by
\* another caller
C7_Witness ==
    /\ initSize = maxSize
    /\ \E c, d \in Callers : pc[c] = "failed" /\ pc[d] = "holding"
    /\ connectionCnt = maxSize

\* C8: the release of a handle wakes every caller blocked in getConnection()
\* and the producer.
C8_ReleaseSignalsWaiters ==
    [][\A c \in Callers :
          pc[c] = "holding" /\ pc'[c] = "idle" =>
             /\ \A d \in Callers : pc[d] = "wait" => pc'[d] = "notified"
             /\ prodPc' = "run"]_vars

Holding == {c \in Callers : pc[c] = "holding"}

Failed == {c \in Callers : pc[c] = "failed"}

\* C9: when maxSize + 1 callers call and nobody releases, the pool grows to
\* maxSize, maxSize callers hold a connection and the remaining caller fails
\* with the timeout.
C9_GrowthUnderLoad ==
    <>(/\ connectionCnt = maxSize
       /\ Cardinality(Holding) = maxSize
       /\ Cardinality(Failed) = 1)

AllReleased == \A c \in Callers : pc[c] \in {"idle", "failed"}

\* C10: once the pool has grown to maxSize and every handle has been released,
\* if no caller calls again then the connection count settles at initSize.
C10_ShrinkOnIdle ==
    []((connectionCnt = maxSize /\ AllReleased /\ []AllReleased)
          => <>[](connectionCnt = initSize))

\* C11: the scanner deletes only a connection that is in the idle queue: every
\* decrement of the connection count removes the head of a queue that has
\* elements, and leaves the connections held by callers as they were; with no
\* element in the queue the scanner decrements nothing.
C11_ReaperEvictsOnlyIdle ==
    [][connectionCnt' < connectionCnt =>
          /\ connectionQue # <<>>
          /\ connectionQue' = Tail(connectionQue)
          /\ connState'[Head(connectionQue)] = "dead"
          /\ \A p \in Held : connState'[p] = connState[p]]_vars

\* C12: when the scanner evicts from a queue that has elements, it removes the
\* head, the head has been idle for at least MaxIdleTime and no element of the
\* queue has been idle longer; when it ends a cycle with the connection count
\* above initSize, the head has been idle for less than MaxIdleTime.
C12_FifoEviction ==
    [][/\ connectionCnt' < connectionCnt /\ connectionQue # <<>> =>
             /\ connectionQue' = Tail(connectionQue)
             /\ alive[Head(connectionQue)] >= MaxIdleTime
             /\ \A i \in 1..Len(connectionQue) :
                   alive[connectionQue[i]] <= alive[Head(connectionQue)]
       /\ scanPc = "scan" /\ scanPc' = "sleep" /\ AboveInit /\ connectionQue # <<>> =>
             alive[Head(connectionQue)] < MaxIdleTime]_vars

\* C19: the connection count equals the number of connections in the idle
\* queue plus the number of connections checked out.
C19_Conservation ==
    connectionCnt = Len(connectionQue) + Cardinality(Held)

\* C20: a connection the scanner has deleted is neither held by a caller nor
\* in the idle queue.
C20_NoUseAfterEviction ==
    \A p \in ConnIds :
        connState[p] = "dead" => p \notin Held /\ p \notin Range(connectionQue)

\* a Connection object whose connect() failed comes into being in this step
OpenFails(p) == connState[p] # "broken" /\ connState'[p] = "broken"

\* C13: when opening the new connection fails in the producer, the connection
\* count is not incremented and nothing is put into the idle queue.
C13_ProducerFailureNoOp ==
    [][\A p \in ConnIds :
          OpenFails(p) =>
             /\ connectionCnt' = connectionCnt
             /\ connectionQue' = connectionQue]_vars

\* C14: when the warm-up connections cannot be opened (initSize > 0 and the
\* server unreachable), the pool is not ready: nothing is counted, nothing is
\* in the idle queue and neither the producer nor the scanner runs.
C14_WarmUpFailureAborts ==
    (~dbUp /\ initSize > 0) =>
        /\ connectionCnt = 0
        /\ connectionQue = <<>>
        /\ prodPc = "off"
        /\ scanPc = "off"

\* C15: in a pool constructed without its configuration no thread runs and
\* nothing is counted, and getConnection() fails at once: no caller comes to
\* wait in cv.wait_for on the timeout that was never configured.
C15_MissingConfigFailsFast ==
    [][prodPc = "off" =>
          /\ prodPc' = "off" /\ scanPc' = "off"
          /\ connectionCnt' = 0
          /\ \A c \in Callers : pc'[c] # "wait"]_vars

\* a Connection object comes into being in this step
Created(p) == ~Exists(p) /\ Exists(p)'

\* C16: the producer creates a connection only when the idle queue is empty
\* and the connection count is below maxSize; it creates one connection, which
\* is then the only element of the queue, and counts it in the same step; the
\* count rises in no other way; and the producer, once in cv.wait, stays there
\* until a getConnection() that hands out a connection notifies it.
C16_DemandDrivenProduction ==
    [][/\ \A p \in ConnIds :
             Created(p) =>
                /\ QueEmpty
                /\ connectionCnt < maxSize
                /\ connectionQue' = <<p>>
                /\ connectionCnt' = connectionCnt + 1
                /\ \A q \in ConnIds \ {p} : ~Created(q)
       /\ connectionCnt' > connectionCnt => \E p \in ConnIds : Created(p)
       /\ prodPc = "wait" /\ prodPc' = "run" =>
             \E c \in Callers : pc[c] # "holding" /\ pc'[c] = "holding"]_vars

\* the producer has added a connection to the warm-up connections on demand
\* and is blocked in cv.wait at a queue that has an element
C16_Witness ==
    /\ connectionCnt > initSize
    /\ prodPc = "wait"
    /\ connectionQue # <<>>
    /\ \E c \in Callers : pc[c] = "holding"

\* the state a getConnection() leaves when it has taken the last element of
\* the queue below maxSize: it has notified the producer (and new Connection()
\* has an object to give)
LeftEmptyBelowMax ==
    /\ QueEmpty
    /\ BelowMax
    /\ prodPc = "run"
    /\ \E c \in Callers : pc[c] = "holding"
    /\ Allocatable # {}

\* C17: when getConnection() has left the idle queue empty with the connection
\* count below maxSize, the queue gets an element again: the producer, which
\* was notified, creates one unless a release comes first.
C17_NoLostWakeup == LeftEmptyBelowMax ~> (connectionQue # <<>>)

\* C18: getConnection() takes the head of the idle queue, the deleter and the
\* producer append at the tail, and from head to tail no element of the queue
\* has been idle for less time than the one behind it.
C18_QueueOrderedByIdleTime ==
    \A i, j \in 1..Len(connectionQue) :
        i < j => alive[connectionQue[i]] >= alive[connectionQue[j]]

TypeOK ==
    /\ underflow \in 0..MaxUnderflow
    /\ underflow > 0 => connectionQue = <<>>
    /\ \A c \in Callers : sp[c] \in 0..MaxConns
    /\ \A c \in Callers : (pc[c] = "holding") = (sp[c] # NullPtr)
====
